---- MODULE Spec2Model ----
(***************************************************************************)
(* The /prompt pipeline of the eSIM knowledge-base backend: input check,   *)
(* intent extraction, country lookup, strict plan query, relaxed           *)
(* (close-match) plan query and the response envelope.                     *)
(*                                                                         *)
(* The variant modelled is the one whose strict query limits to 3 rows and *)
(* whose close-match envelope has status 400 (getEsimData at lines         *)
(* 172-206, the /prompt handler at lines 261-352).                         *)
(*                                                                         *)
(* JavaScript values that may be null are wrapped: None is null,           *)
(* Some(x) is the value x.  Strings that are matched by substring (country *)
(* codes, data units) are sequences of one-character strings; strings that *)
(* are only compared or forwarded are TLA+ strings.                        *)
(***************************************************************************)
EXTENDS Integers, Sequences, FiniteSets, TLC

VARIABLES plans, nullFilter, pc, intent, countryCode, esimData, closeMatches, resp, calls, first,
          body, other

vars == <<plans, nullFilter, pc, intent, countryCode, esimData, closeMatches, resp, calls, first,
          body, other>>

(***************************************************************************)
(* Nullable values                                                         *)
(***************************************************************************)
None == [null |-> TRUE]

Some(x) == [null |-> FALSE, v |-> x]

\* JavaScript truthiness of a nullable number: null and 0 are falsy.
TruthyNum(x) == (~x.null) /\ x.v # 0

\* JavaScript truthiness of a nullable string: null and "" are falsy.
TruthyStr(x) == (~x.null) /\ x.v # <<>>

\* The same for a string kept as a TLA+ string.
TruthyText(x) == (~x.null) /\ x.v # ""

(***************************************************************************)
(* Bounds and program constants                                            *)
(***************************************************************************)
\* Longest plan catalog explored.
MaxPlans == 4

\* query.limit(3) of the strict query when only the duration is given.
StrictLimit == 3

\* .limit(3) of the close-match query.
CloseLimit == 3

JP == <<"J", "P">>

KR == <<"K", "R">>

JPX == <<"J", "P", "X">>

MB == <<"M", "B">>

GB == <<"G", "B">>

\* The countries table (name -> code), read-only reference data.
Countries ==
  << [name |-> "Japan", code |-> JP],
     [name |-> "Korea", code |-> KR] >>

\* The kinds of plan rows a catalog is built from.
PlanPool ==
  { [country_code |-> JP,  data_amount |-> 1, data_unit |-> GB, duration_in_days |-> 10],
    [country_code |-> JPX, data_amount |-> 5, data_unit |-> GB, duration_in_days |-> 30],
    [country_code |-> JP,  data_amount |-> 5, data_unit |-> MB, duration_in_days |-> 30],
    [country_code |-> KR,  data_amount |-> 5, data_unit |-> MB, duration_in_days |-> 10] }

\* Five plans of one country with the durations 5, 10, 10, 15 and 30.
ScenarioCatalog ==
  << [country_code |-> JP, data_amount |-> 1, data_unit |-> GB, duration_in_days |-> 5],
     [country_code |-> JP, data_amount |-> 1, data_unit |-> GB, duration_in_days |-> 10],
     [country_code |-> JP, data_amount |-> 5, data_unit |-> GB, duration_in_days |-> 10],
     [country_code |-> JP, data_amount |-> 1, data_unit |-> GB, duration_in_days |-> 15],
     [country_code |-> JP, data_amount |-> 1, data_unit |-> GB, duration_in_days |-> 30] >>

\* A catalog is a sequence of plan rows in catalog order; the id is the position.
Catalogs ==
  UNION { [1..n -> PlanPool] : n \in 0..MaxPlans }

WithIds(cat) ==
  [i \in 1..Len(cat) |->
     [id |-> i,
      country_code |-> cat[i].country_code,
      data_amount |-> cat[i].data_amount,
      data_unit |-> cat[i].data_unit,
      duration_in_days |-> cat[i].duration_in_days]]

\* The records the extractor can return (after the ?? null normalisation).
CountryNames == {Some("Japan"), Some("Korea"), Some("Mars"), None}

Amounts == {None, Some(0), Some(1), Some(5)}

Units == {None, Some(MB), Some(GB)}

Durations == {None, Some(0), Some(10), Some(30)}

ChatTexts == {"chat-a", "chat-b"}

\* The values of body.messages, each message with a nullable content.
Bodies ==
  { <<>>,
    << [content |-> None] >>,
    << [content |-> Some("")] >>,
    << [content |-> Some("need esim")] >> }

\* What c.req.json() gives: a rejection (the body is not JSON), the JSON value
\* null, or an object with its messages.
NoRequest == [json |-> "none", messages |-> <<>>]

Requests ==
  { [json |-> "object", messages |-> b] : b \in Bodies }
    \cup { [json |-> "invalid", messages |-> <<>>], [json |-> "null", messages |-> <<>>] }

\* The text of the exception thrown while the body is read, "" when none is.
BodyError(rq) ==
  IF rq.json = "invalid" THEN "Unexpected end of JSON input"
  ELSE IF rq.json = "null" THEN "Cannot read properties of null (reading 'messages')"
  ELSE ""

DbError == "catalog unavailable"

GenError == "generation failed"

NoIntent ==
  [country_name |-> None, data_amount |-> None, data_unit |-> None,
   duration_in_days |-> None, chat_response |-> ""]

(***************************************************************************)
(* Catalog queries                                                         *)
(***************************************************************************)
\* SQL  col LIKE '%needle%'  for a needle without wildcard characters.
Contains(hay, needle) ==
  \E i \in 0..(Len(hay) - Len(needle)) :
     SubSeq(hay, i + 1, i + Len(needle)) = needle

\* query.limit(n)
Limit(rows, n) == SubSeq(rows, 1, IF Len(rows) < n THEN Len(rows) ELSE n)

\* The rows of supabaseClient.from("countries").select("*").eq("name", countryName).
CountryRows(countryName) ==
  SelectSeq(Countries, LAMBDA r : (~countryName.null) /\ r.name = countryName.v)

\* Mutant: the .eq("name", ...) filter and the empty check are lost, data[0] of the table.
getCountryCode_FirstRow(countryName, failed) ==
  IF failed THEN None ELSE Some(Countries[1])

\* getCountryCode: null on a database error and on zero rows, else data[0].
getCountryCode(countryName, failed) ==
  IF failed THEN None
  ELSE IF Len(CountryRows(countryName)) = 0 THEN None
  ELSE Some(CountryRows(countryName)[1])

\* Mutant: the data_unit filter is lost.
EsimRows_NoUnitFilter(cat, country_code, data_amount, data_unit, duration_in_days) ==
  LET q1 == IF TruthyStr(country_code)
            THEN SelectSeq(cat, LAMBDA r : Contains(r.country_code, country_code.v))
            ELSE cat
      q3 == IF TruthyNum(data_amount)
            THEN SelectSeq(q1, LAMBDA r : r.data_amount >= data_amount.v)
            ELSE q1
      q4 == IF TruthyNum(duration_in_days)
            THEN SelectSeq(q3, LAMBDA r : r.duration_in_days = duration_in_days.v)
            ELSE q3
  IN  IF (~TruthyStr(data_unit)) /\ (~TruthyNum(data_amount)) /\ TruthyNum(duration_in_days)
      THEN Limit(q4, StrictLimit)
      ELSE q4

\* Mutant: the gte("data_amount", ...) filter is lost.
EsimRows_NoAmountFilter(cat, country_code, data_amount, data_unit, duration_in_days) ==
  LET q1 == IF TruthyStr(country_code)
            THEN SelectSeq(cat, LAMBDA r : Contains(r.country_code, country_code.v))
            ELSE cat
      q2 == IF TruthyStr(data_unit)
            THEN SelectSeq(q1, LAMBDA r : Contains(r.data_unit, data_unit.v)
                                          /\ r.data_unit = data_unit.v)
            ELSE q1
      q4 == IF TruthyNum(duration_in_days)
            THEN SelectSeq(q2, LAMBDA r : r.duration_in_days = duration_in_days.v)
            ELSE q2
  IN  IF (~TruthyStr(data_unit)) /\ (~TruthyNum(data_amount)) /\ TruthyNum(duration_in_days)
      THEN Limit(q4, StrictLimit)
      ELSE q4

\* The rows the query built by getEsimData selects from a catalog.
EsimRows(cat, country_code, data_amount, data_unit, duration_in_days) ==
  LET q1 == IF TruthyStr(country_code)
            THEN SelectSeq(cat, LAMBDA r : Contains(r.country_code, country_code.v))
            ELSE cat
      q2 == IF TruthyStr(data_unit)
            THEN SelectSeq(q1, LAMBDA r : Contains(r.data_unit, data_unit.v)
                                          /\ r.data_unit = data_unit.v)
            ELSE q1
      q3 == IF TruthyNum(data_amount)
            THEN SelectSeq(q2, LAMBDA r : r.data_amount >= data_amount.v)
            ELSE q2
      q4 == IF TruthyNum(duration_in_days)
            THEN SelectSeq(q3, LAMBDA r : r.duration_in_days = duration_in_days.v)
            ELSE q3
  IN  IF (~TruthyStr(data_unit)) /\ (~TruthyNum(data_amount)) /\ TruthyNum(duration_in_days)
      THEN Limit(q4, StrictLimit)
      ELSE q4

\* getEsimData: null on a database error, else the rows.
getEsimData(cat, country_code, data_amount, data_unit, duration_in_days, failed) ==
  IF failed THEN None
  ELSE Some(EsimRows(cat, country_code, data_amount, data_unit, duration_in_days))

\* What the catalog service makes of a filter whose value is null, when it
\* answers the query at all: the filter is ignored, or the comparison with null is
\* unknown and no row passes.
NullFilters == {"ignored", "unknown"}

\* Mutant: the gte("duration_in_days", ...) filter of the close-match query is lost.
CloseRows_NoDurationFilter(cat, code, duration_in_days, null_filter) ==
  Limit(SelectSeq(cat, LAMBDA r : Contains(r.country_code, code)), CloseLimit)

\* Mutant: gt instead of gte in the close-match query.
CloseRows_StrictlyLonger(cat, code, duration_in_days, null_filter) ==
  Limit(SelectSeq(cat, LAMBDA r : /\ Contains(r.country_code, code)
                                  /\ IF duration_in_days.null
                                     THEN null_filter = "ignored"
                                     ELSE r.duration_in_days > duration_in_days.v),
        CloseLimit)

\* The close-match query: like(country_code, %code%), gte(duration_in_days, d), limit(3).
\* The gte call is not guarded: a null duration is sent as the filter value null,
\* and the rows of an answered query are then what the service makes of it.
CloseRows(cat, code, duration_in_days, null_filter) ==
  Limit(SelectSeq(cat, LAMBDA r : /\ Contains(r.country_code, code)
                                  /\ IF duration_in_days.null
                                     THEN null_filter = "ignored"
                                     ELSE r.duration_in_days >= duration_in_days.v),
        CloseLimit)

(***************************************************************************)
(* Responses                                                               *)
(***************************************************************************)
NoResp ==
  [shape |-> "none", http |-> 0, error |-> "", status |-> 0, success |-> FALSE,
   message |-> <<>>, chat_response |-> "", data |-> None]

\* c.json({ error: msg }, code)
ErrorJson(msg, code) ==
  [shape |-> "error", http |-> code, error |-> msg, status |-> 0, success |-> FALSE,
   message |-> <<>>, chat_response |-> "", data |-> None]

\* Mutant: the chat text is only passed on with a successful answer.
response_DropChat(status, success, message, chat_response, data) ==
  [shape |-> "envelope", http |-> 200, error |-> "", status |-> status,
   success |-> success, message |-> message,
   chat_response |-> IF success THEN chat_response ELSE "",
   data |-> data]

\* c.json(response(status, success, message, chat_response, data))
response(status, success, message, chat_response, data) ==
  [shape |-> "envelope", http |-> 200, error |-> "", status |-> status,
   success |-> success, message |-> message, chat_response |-> chat_response,
   data |-> data]

\* messages[messages.length - 1]?.content
LastContent(messages) ==
  IF Len(messages) = 0 THEN None ELSE messages[Len(messages)].content

\* The message texts; the close-match text interpolates the extracted country name.
MsgExact == <<"Exact match found">>

MsgNoExact == <<"No exact match found.">>

MsgClosest(country_name) ==
  <<"No exact match found. Here are the closest matches based on ", country_name, " esim.">>

MsgDb(text) == <<text>>

\* Mutant: only a missing content is rejected, an empty text goes on.
InputRejected_NullOnly(b) == LastContent(b).null

\* if (!currentMessageContent)
InputRejected(b) == ~TruthyText(LastContent(b))

\* if (!countryCode)
CountryNotFound(cc) == cc.null

\* Mutant: !esimData || esimData.length === 0
NeedsCloseMatch_NullToo(ed) == ed.null \/ Len(ed.v) = 0

\* Mutant: esimData?.length <= 1
NeedsCloseMatch_AtMostOne(ed) == (~ed.null) /\ Len(ed.v) <= 1

\* esimData?.length === 0
NeedsCloseMatch(ed) == (~ed.null) /\ Len(ed.v) = 0

\* Mutant: a full page of close matches is sent with 400, a shorter one with 200.
CloseMatchReply_MixedStatus(country_name, chat_response, failed, rows) ==
  IF failed THEN response(500, FALSE, MsgDb(DbError), chat_response, Some(<<>>))
  ELSE IF Len(rows) = 0
       THEN response(404, FALSE, MsgClosest(country_name), chat_response, Some(<<>>))
       ELSE response(IF Len(rows) < CloseLimit THEN 200 ELSE 400, FALSE,
                     MsgClosest(country_name), chat_response, Some(rows))

\* Mutant: closeMatches.length <= 1 answers 404.
CloseMatchReply_OffByOne(country_name, chat_response, failed, rows) ==
  IF failed THEN response(500, FALSE, MsgDb(DbError), chat_response, Some(<<>>))
  ELSE IF Len(rows) <= 1
       THEN response(404, FALSE, MsgClosest(country_name), chat_response, Some(<<>>))
       ELSE response(400, FALSE, MsgClosest(country_name), chat_response, Some(rows))

\* Mutant: no emptiness check, whatever the close-match query returned is sent with 200.
CloseMatchReply_NoEmptyCheck(country_name, chat_response, failed, rows) ==
  IF failed THEN response(500, FALSE, MsgDb(DbError), chat_response, Some(<<>>))
  ELSE response(200, FALSE, MsgClosest(country_name), chat_response, Some(rows))

\* The response once the close-match query has returned.
CloseMatchReply(country_name, chat_response, failed, rows) ==
  IF failed THEN response(500, FALSE, MsgDb(DbError), chat_response, Some(<<>>))
  ELSE IF Len(rows) = 0
       THEN response(404, FALSE, MsgClosest(country_name), chat_response, Some(<<>>))
       ELSE response(400, FALSE, MsgClosest(country_name), chat_response, Some(rows))

\* return c.json(response(200, true, "Exact match found", chat_response, esimData))
ExactReply(chat_response, ed) ==
  response(200, TRUE, MsgExact, chat_response, ed)

(***************************************************************************)
(* The handler of POST /prompt, one action per await                       *)
(***************************************************************************)
\* One entry of the log of external calls: which call, and how it ended.
Call(op, outcome) == [op |-> op, outcome |-> outcome]

Outcome(failed) == IF failed THEN "error" ELSE "ok"

MsgNoInput == "No messages or the last message does not have a content property"

\* The state of a request whose handling has not begun.
Idle ==
  [pc |-> "idle", intent |-> NoIntent, countryCode |-> None, esimData |-> None,
   closeMatches |-> None, resp |-> NoResp, calls |-> <<>>]

Intents ==
  [country_name : CountryNames, data_amount : Amounts, data_unit : Units,
   duration_in_days : Durations, chat_response : ChatTexts]

Init ==
  /\ plans \in { WithIds(c) : c \in Catalogs \cup {ScenarioCatalog} }
  /\ nullFilter \in NullFilters
  /\ pc = "idle"
  /\ intent = NoIntent
  /\ countryCode = None
  /\ esimData = None
  /\ closeMatches = None
  /\ resp = NoResp
  /\ calls = <<>>
  /\ first = NoResp
  /\ body = NoRequest
  /\ other = Idle

\* The request arrives: the body is read and the last message's content checked;
\* an exception while the body is read is answered by the outer catch.
Receive ==
  /\ pc = "idle"
  /\ \E rq \in Requests :
       /\ body' = rq
       /\ IF BodyError(rq) # ""
          THEN /\ resp' = ErrorJson(BodyError(rq), 500)
               /\ pc' = "done"
          ELSE IF InputRejected(rq.messages)
          THEN /\ resp' = ErrorJson(MsgNoInput, 500)
               /\ pc' = "done"
          ELSE /\ pc' = "extract"
               /\ UNCHANGED resp
  /\ UNCHANGED <<plans, nullFilter, intent, countryCode, esimData, closeMatches, calls, first, other>>

\* Mutant: the thrown error is swallowed into an empty record and the pipeline goes on.
ExtractThrows_Swallowed ==
  /\ pc = "extract"
  /\ calls' = Append(calls, Call("generate", "error"))
  /\ intent' = NoIntent
  /\ pc' = "country"
  /\ UNCHANGED <<plans, nullFilter, countryCode, esimData, closeMatches, resp, first, body, other>>

\* await chain.invoke(...) throws: the inner catch answers { error: e.message }, 500.
ExtractThrows ==
  /\ pc = "extract"
  /\ calls' = Append(calls, Call("generate", "error"))
  /\ resp' = ErrorJson(GenError, 500)
  /\ pc' = "done"
  /\ UNCHANGED <<plans, nullFilter, intent, countryCode, esimData, closeMatches, first, body, other>>

\* await chain.invoke(...) returns nothing: if (!result) answers { error: "No result" }, 404.
ExtractNoResult ==
  /\ pc = "extract"
  /\ calls' = Append(calls, Call("generate", "empty"))
  /\ resp' = ErrorJson("No result", 404)
  /\ pc' = "done"
  /\ UNCHANGED <<plans, nullFilter, intent, countryCode, esimData, closeMatches, first, body, other>>

\* await chain.invoke(...) returns a record; absent fields become null.
ExtractReturns ==
  /\ pc = "extract"
  /\ calls' = Append(calls, Call("generate", "ok"))
  /\ \E rec \in Intents : intent' = rec
  /\ pc' = "country"
  /\ UNCHANGED <<plans, nullFilter, countryCode, esimData, closeMatches, resp, first, body, other>>

\* await getCountryCode(country_name), then the if (!countryCode) short-circuit.
CountryLookup ==
  /\ pc = "country"
  /\ \E failed \in BOOLEAN :
       LET cc == getCountryCode(intent.country_name, failed)
       IN  /\ calls' = Append(calls, Call("countries", Outcome(failed)))
           /\ countryCode' = cc
           /\ IF CountryNotFound(cc)
              THEN /\ resp' = response(404, FALSE, MsgNoExact, intent.chat_response, Some(<<>>))
                   /\ pc' = "done"
              ELSE /\ pc' = "strict"
                   /\ UNCHANGED resp
  /\ UNCHANGED <<plans, nullFilter, intent, esimData, closeMatches, first, body, other>>

\* await getEsimData(...), then either the Exact answer or on to the close-match query.
StrictQuery ==
  /\ pc = "strict"
  /\ \E failed \in BOOLEAN :
       LET ed == getEsimData(plans, Some(countryCode.v.code), intent.data_amount,
                             intent.data_unit, intent.duration_in_days, failed)
       IN  /\ calls' = Append(calls, Call("plans-strict", Outcome(failed)))
           /\ esimData' = ed
           /\ IF NeedsCloseMatch(ed)
              THEN /\ pc' = "relaxed"
                   /\ UNCHANGED resp
              ELSE /\ resp' = ExactReply(intent.chat_response, ed)
                   /\ pc' = "done"
  /\ UNCHANGED <<plans, nullFilter, intent, countryCode, closeMatches, first, body, other>>

\* Mutant: when the close-match query fails the handler never answers.
RelaxedQuery_HangsOnError ==
  /\ pc = "relaxed"
  /\ \E failed \in BOOLEAN :
       /\ calls' = Append(calls, Call("plans-relaxed", Outcome(failed)))
       /\ LET rows == IF failed THEN <<>>
                      ELSE CloseRows(plans, countryCode.v.code, intent.duration_in_days, nullFilter)
          IN  /\ closeMatches' = IF failed THEN None ELSE Some(rows)
              /\ IF failed
                 THEN /\ pc' = "hung"
                      /\ UNCHANGED resp
                 ELSE /\ pc' = "done"
                      /\ resp' = CloseMatchReply(intent.country_name, intent.chat_response,
                                                 failed, rows)
  /\ UNCHANGED <<plans, nullFilter, intent, countryCode, esimData, first, body, other>>

\* await the close-match query, then the 500 / 404 / 400 answer.
RelaxedQuery ==
  /\ pc = "relaxed"
  /\ \E failed \in BOOLEAN :
       /\ calls' = Append(calls, Call("plans-relaxed", Outcome(failed)))
       /\ LET rows == IF failed THEN <<>>
                      ELSE CloseRows(plans, countryCode.v.code, intent.duration_in_days, nullFilter)
          IN  /\ closeMatches' = IF failed THEN None ELSE Some(rows)
              /\ resp' = CloseMatchReply(intent.country_name, intent.chat_response, failed, rows)
  /\ pc' = "done"
  /\ UNCHANGED <<plans, nullFilter, intent, countryCode, esimData, first, body, other>>

\* The resolver is invoked a second time with the same arguments on the same catalog:
\* the first answer is kept and the strict query is awaited again.
RunAgain ==
  /\ pc = "done"
  /\ first = NoResp
  /\ \E i \in 1..Len(calls) : calls[i].op = "plans-strict"
  /\ first' = resp
  /\ resp' = NoResp
  /\ esimData' = None
  /\ closeMatches' = None
  /\ pc' = "strict"
  /\ UNCHANGED <<plans, nullFilter, intent, countryCode, calls, body, other>>

Next ==
  \/ Receive
  \/ ExtractThrows
  \/ ExtractNoResult
  \/ ExtractReturns
  \/ CountryLookup
  \/ StrictQuery
  \/ RelaxedQuery

Spec == Init /\ [][Next]_vars

NextTwoRuns == Next \/ RunAgain

\* The pipeline with the resolver run twice on the same intent record and catalog.
SpecTwoRuns == Init /\ [][NextTwoRuns]_vars

(***************************************************************************)
(* A second request handled concurrently.  Its handler instance has its    *)
(* own locals, kept in the record other; the catalog is the only thing the *)
(* two requests both touch, and they only read it.                         *)
(***************************************************************************)
ownVars == <<pc, intent, countryCode, esimData, closeMatches, resp, calls, first, body>>

\* The records the extractor returns to the second request.
OtherIntents ==
  { rec \in Intents :
      /\ rec.country_name \in {Some("Japan"), Some("Mars")}
      /\ rec.data_amount \in {None, Some(5)}
      /\ rec.data_unit = None
      /\ rec.duration_in_days \in {None, Some(10)}
      /\ rec.chat_response = "chat-b" }

\* The catalogs the two concurrent requests are run on.
ConcurrentCatalogs == { c \in Catalogs : Len(c) <= 1 } \cup {ScenarioCatalog}

OtherReceive ==
  /\ other.pc = "idle"
  /\ \E rq \in Requests :
       other' = IF BodyError(rq) # ""
                THEN [other EXCEPT !.resp = ErrorJson(BodyError(rq), 500), !.pc = "done"]
                ELSE IF InputRejected(rq.messages)
                THEN [other EXCEPT !.resp = ErrorJson(MsgNoInput, 500), !.pc = "done"]
                ELSE [other EXCEPT !.pc = "extract"]
  /\ UNCHANGED <<plans, nullFilter, ownVars>>

OtherExtractThrows ==
  /\ other.pc = "extract"
  /\ other' = [other EXCEPT !.calls = Append(@, Call("generate", "error")),
                            !.resp = ErrorJson(GenError, 500),
                            !.pc = "done"]
  /\ UNCHANGED <<plans, nullFilter, ownVars>>

OtherExtractNoResult ==
  /\ other.pc = "extract"
  /\ other' = [other EXCEPT !.calls = Append(@, Call("generate", "empty")),
                            !.resp = ErrorJson("No result", 404),
                            !.pc = "done"]
  /\ UNCHANGED <<plans, nullFilter, ownVars>>

OtherExtractReturns ==
  /\ other.pc = "extract"
  /\ \E rec \in OtherIntents :
       other' = [other EXCEPT !.calls = Append(@, Call("generate", "ok")),
                              !.intent = rec,
                              !.pc = "country"]
  /\ UNCHANGED <<plans, nullFilter, ownVars>>

\* Mutant: country_name is a module-level variable, so the lookup of the second
\* request reads the name the first request extracted.
OtherCountryLookup_SharedName ==
  /\ other.pc = "country"
  /\ \E failed \in BOOLEAN :
       LET cc == getCountryCode(intent.country_name, failed)
       IN  other' = IF CountryNotFound(cc)
                    THEN [other EXCEPT !.calls = Append(@, Call("countries", Outcome(failed))),
                                       !.countryCode = cc,
                                       !.resp = response(404, FALSE, MsgNoExact,
                                                         other.intent.chat_response, Some(<<>>)),
                                       !.pc = "done"]
                    ELSE [other EXCEPT !.calls = Append(@, Call("countries", Outcome(failed))),
                                       !.countryCode = cc,
                                       !.pc = "strict"]
  /\ UNCHANGED <<plans, nullFilter, ownVars>>

OtherCountryLookup ==
  /\ other.pc = "country"
  /\ \E failed \in BOOLEAN :
       LET cc == getCountryCode(other.intent.country_name, failed)
       IN  other' = IF CountryNotFound(cc)
                    THEN [other EXCEPT !.calls = Append(@, Call("countries", Outcome(failed))),
                                       !.countryCode = cc,
                                       !.resp = response(404, FALSE, MsgNoExact,
                                                         other.intent.chat_response, Some(<<>>)),
                                       !.pc = "done"]
                    ELSE [other EXCEPT !.calls = Append(@, Call("countries", Outcome(failed))),
                                       !.countryCode = cc,
                                       !.pc = "strict"]
  /\ UNCHANGED <<plans, nullFilter, ownVars>>

OtherStrictQuery ==
  /\ other.pc = "strict"
  /\ \E failed \in BOOLEAN :
       LET ed == getEsimData(plans, Some(other.countryCode.v.code), other.intent.data_amount,
                             other.intent.data_unit, other.intent.duration_in_days, failed)
       IN  other' = IF NeedsCloseMatch(ed)
                    THEN [other EXCEPT !.calls = Append(@, Call("plans-strict", Outcome(failed))),
                                       !.esimData = ed,
                                       !.pc = "relaxed"]
                    ELSE [other EXCEPT !.calls = Append(@, Call("plans-strict", Outcome(failed))),
                                       !.esimData = ed,
                                       !.resp = ExactReply(other.intent.chat_response, ed),
                                       !.pc = "done"]
  /\ UNCHANGED <<plans, nullFilter, ownVars>>

OtherRelaxedQuery ==
  /\ other.pc = "relaxed"
  /\ \E failed \in BOOLEAN :
       /\ LET rows == IF failed THEN <<>>
                      ELSE CloseRows(plans, other.countryCode.v.code,
                                     other.intent.duration_in_days, nullFilter)
          IN  other' = [other EXCEPT
                          !.calls = Append(@, Call("plans-relaxed", Outcome(failed))),
                          !.closeMatches = IF failed THEN None ELSE Some(rows),
                          !.resp = CloseMatchReply(other.intent.country_name,
                                                   other.intent.chat_response, failed, rows),
                          !.pc = "done"]
  /\ UNCHANGED <<plans, nullFilter, ownVars>>

InitConcurrent ==
  /\ plans \in { WithIds(c) : c \in ConcurrentCatalogs }
  /\ nullFilter \in NullFilters
  /\ pc = "idle"
  /\ intent = NoIntent
  /\ countryCode = None
  /\ esimData = None
  /\ closeMatches = None
  /\ resp = NoResp
  /\ calls = <<>>
  /\ first = NoResp
  /\ body = NoRequest
  /\ other = Idle

NextConcurrent ==
  \/ Next
  \/ OtherReceive
  \/ OtherExtractThrows
  \/ OtherExtractNoResult
  \/ OtherExtractReturns
  \/ OtherCountryLookup
  \/ OtherStrictQuery
  \/ OtherRelaxedQuery

\* Two /prompt requests handled concurrently, their awaits interleaved in any order.
SpecConcurrent == InitConcurrent /\ [][NextConcurrent]_vars

\* What one request answers when it is handled alone: the handler from the country
\* lookup on, for the record the extractor returned and the way each query ended.
AloneResponse(cat, rec, log) ==
  LET failedIn(op) == \E i \in 1..Len(log) : log[i] = Call(op, "error")
      cc == getCountryCode(rec.country_name, failedIn("countries"))
  IN  IF CountryNotFound(cc)
      THEN response(404, FALSE, MsgNoExact, rec.chat_response, Some(<<>>))
      ELSE LET ed == getEsimData(cat, Some(cc.v.code), rec.data_amount, rec.data_unit,
                                 rec.duration_in_days, failedIn("plans-strict"))
           IN  IF NeedsCloseMatch(ed)
               THEN CloseMatchReply(rec.country_name, rec.chat_response,
                                    failedIn("plans-relaxed"),
                                    IF failedIn("plans-relaxed") THEN <<>>
                                    ELSE CloseRows(cat, cc.v.code, rec.duration_in_days, nullFilter))
               ELSE ExactReply(rec.chat_response, ed)

\* Every awaited call eventually returns or throws.
CallsReturn ==
  /\ WF_vars(ExtractThrows \/ ExtractNoResult \/ ExtractReturns)
  /\ WF_vars(CountryLookup)
  /\ WF_vars(StrictQuery)
  /\ WF_vars(RelaxedQuery)

\* One request on a small catalog, with every awaited call returning.
SpecProgress == InitConcurrent /\ [][Next]_vars /\ CallsReturn

(***************************************************************************)
(* Vocabulary of the properties                                            *)
(***************************************************************************)
Called(op) == \E i \in 1..Len(calls) : calls[i].op = op

Succeeded(op) == \E i \in 1..Len(calls) : calls[i] = Call(op, "ok")

Failed(op) == \E i \in 1..Len(calls) : calls[i] = Call(op, "error")

IsExact(r) == r.shape = "envelope" /\ r.status = 200 /\ r.success

IsCloseMatch(r) == r.shape = "envelope" /\ r.status = 400 /\ ~r.success

IsNoMatch(r) ==
  r.shape = "envelope" /\ r.status = 404 /\ (~r.success) /\ r.data = Some(<<>>)

IsCatalogFailure(r) ==
  \/ r.shape = "error" /\ r.error = DbError
  \/ r.shape = "envelope" /\ r.status = 500 /\ (~r.success) /\ r.message = MsgDb(DbError)

Tag(r) ==
  IF IsExact(r) THEN "Exact"
  ELSE IF IsCloseMatch(r) THEN "CloseMatch"
  ELSE IF r.shape = "envelope" /\ r.status = 404 THEN "NoMatch"
  ELSE "Failure"

(***************************************************************************)
(* C1 .. C10                                                               *)
(***************************************************************************)
\* C1: when the country resolves, the strict query succeeds with zero rows and the
\* relaxed query succeeds with at least one row, the request ends in the CloseMatch
\* envelope carrying exactly those rows, and never in the NoMatch envelope.
C1_CloseMatchNotNoMatch ==
  ( /\ pc = "done"
    /\ ~countryCode.null
    /\ Succeeded("plans-strict")
    /\ esimData = Some(<<>>)
    /\ Succeeded("plans-relaxed")
    /\ Len(closeMatches.v) >= 1 )
  => /\ resp = response(400, FALSE, MsgClosest(intent.country_name),
                        intent.chat_response, closeMatches)
     /\ IsCloseMatch(resp)
     /\ ~IsNoMatch(resp)

C1_Witness ==
  /\ pc = "done"
  /\ Succeeded("plans-strict")
  /\ esimData = Some(<<>>)
  /\ Succeeded("plans-relaxed")
  /\ Len(closeMatches.v) = 1
  /\ resp.data = closeMatches

\* C2: when the country resolves and both the strict and the relaxed query succeed
\* with zero rows, the answer is the envelope with status 404, success false and
\* data [].
C2_NoMatchEnvelope ==
  ( /\ pc = "done"
    /\ ~countryCode.null
    /\ Succeeded("plans-strict")
    /\ esimData = Some(<<>>)
    /\ Succeeded("plans-relaxed")
    /\ closeMatches = Some(<<>>) )
  => /\ resp.shape = "envelope"
     /\ resp.status = 404
     /\ resp.success = FALSE
     /\ resp.data = Some(<<>>)

C2_Witness ==
  /\ pc = "done"
  /\ intent.country_name = Some("Japan")
  /\ intent.duration_in_days = Some(30)
  /\ Len(plans) >= 1
  /\ Succeeded("plans-strict")
  /\ Succeeded("plans-relaxed")
  /\ closeMatches = Some(<<>>)
  /\ IsNoMatch(resp)

\* C3: a failed strict or relaxed plan query ends the request in a failure response
\* that carries the catalog's error message, never in an Exact, CloseMatch or
\* NoMatch envelope.
C3_QueryFailureIsFailure ==
  ( /\ pc = "done"
    /\ Failed("plans-strict") \/ Failed("plans-relaxed") )
  => /\ IsCatalogFailure(resp)
     /\ Tag(resp) = "Failure"

\* C4: when the extracted country name matches no row of the countries table, the
\* answer is the envelope 404 / false / [] with the extractor's chat_response, and
\* no plan query is issued.
C4_UnknownCountryShortCircuits ==
  ( /\ Called("countries")
    /\ Len(CountryRows(intent.country_name)) = 0 )
  => /\ pc = "done"
     /\ resp = response(404, FALSE, MsgNoExact, intent.chat_response, Some(<<>>))
     /\ ~Called("plans-strict")
     /\ ~Called("plans-relaxed")

C4_Witness ==
  /\ pc = "done"
  /\ intent.country_name = Some("Mars")
  /\ Succeeded("countries")
  /\ resp.status = 404
  /\ resp.chat_response = "chat-b"

\* C5: when the generation call throws, the request ends in the failure answer with
\* the diagnostic message and neither the countries query nor a plans query runs.
C5_ExtractionFailureStops ==
  ( /\ Len(calls) >= 1
    /\ calls[1] = Call("generate", "error") )
  => /\ pc = "done"
     /\ resp = ErrorJson(GenError, 500)
     /\ ~Called("countries")
     /\ ~Called("plans-strict")
     /\ ~Called("plans-relaxed")

C5_Witness ==
  /\ pc = "done"
  /\ calls = << Call("generate", "error") >>
  /\ resp.shape = "error"

\* C6: every terminal response produced after the extractor returned a record
\* carries the extractor's chat_response, on every path.
C6_ChatResponseAlways ==
  ( /\ pc = "done"
    /\ Len(calls) >= 1
    /\ calls[1] = Call("generate", "ok") )
  => /\ resp.shape = "envelope"
     /\ resp.chat_response = intent.chat_response

C6_Witness ==
  /\ pc = "done"
  /\ Failed("plans-relaxed")
  /\ resp.status = 500
  /\ resp.chat_response = intent.chat_response
  /\ intent.chat_response = "chat-a"

\* C7: when amount, unit and duration are all null, the resolver returns at most
\* the cap of 3 rows and every returned row's country_code contains the code.
C7_CodeOnlyCapped ==
  ( /\ pc = "done"
    /\ ~countryCode.null
    /\ intent.data_amount.null
    /\ intent.data_unit.null
    /\ intent.duration_in_days.null
    /\ Succeeded("plans-strict")
    /\ IsExact(resp) )
  => /\ Len(resp.data.v) <= StrictLimit
     /\ \A i \in 1..Len(resp.data.v) :
          Contains(resp.data.v[i].country_code, countryCode.v.code)

\* C8: the data of an Exact envelope holds at most the display cap of 3 rows, a
\* prefix of the strict query's rows in catalog order, for every request.
C8_ExactCapped ==
  ( /\ pc = "done"
    /\ Succeeded("plans-strict")
    /\ IsExact(resp) )
  => /\ Len(resp.data.v) <= StrictLimit
     /\ resp.data.v = Limit(esimData.v, StrictLimit)

\* C9: when the strict query succeeds with at least one row the answer is the Exact
\* envelope (200, true, those rows) and the relaxed query is not issued; the
\* relaxed query is issued only after the strict query returned zero rows.
C9_ExactSkipsRelaxed ==
  /\ ( (~esimData.null) /\ Len(esimData.v) >= 1 )
     => /\ pc = "done"
        /\ resp = response(200, TRUE, MsgExact, intent.chat_response, esimData)
        /\ ~Called("plans-relaxed")
  /\ Called("plans-relaxed")
     => /\ Succeeded("plans-strict")
        /\ esimData = Some(<<>>)

C9_Witness ==
  /\ pc = "done"
  /\ Succeeded("plans-strict")
  /\ Len(esimData.v) = 1
  /\ IsExact(resp)
  /\ ~Called("plans-relaxed")

\* C10: two runs of the resolver on the same intent record and the same catalog
\* that both end in Exact, CloseMatch or NoMatch end in the same one, with the same
\* rows in the same order.
C10_TwoRunsAgree ==
  ( /\ pc = "done"
    /\ first # NoResp
    /\ Tag(first) # "Failure"
    /\ Tag(resp) # "Failure" )
  => /\ Tag(resp) = Tag(first)
     /\ resp.data = first.data

(***************************************************************************)
(* C11 .. C20                                                              *)
(***************************************************************************)
\* The order in which one request issues its external calls.
CallOrder == <<"generate", "countries", "plans-strict", "plans-relaxed">>

\* C11: when the duration is specified and amount and unit are not, the strict
\* result is limited to 3 rows and an Exact result holds only rows of the resolved
\* country whose duration equals the requested one; on the catalog with durations
\* 5, 10, 10, 15, 30 a request for 10 days gets exactly the two 10-day rows.
C11_DurationOnlyExact ==
  ( /\ pc = "done"
    /\ ~countryCode.null
    /\ ~intent.duration_in_days.null
    /\ intent.data_amount.null
    /\ intent.data_unit.null
    /\ Succeeded("plans-strict")
    /\ IsExact(resp) )
  => /\ Len(resp.data.v) <= StrictLimit
     /\ \A i \in 1..Len(resp.data.v) :
          /\ Contains(resp.data.v[i].country_code, countryCode.v.code)
          /\ resp.data.v[i].duration_in_days = intent.duration_in_days.v
     /\ ( plans = WithIds(ScenarioCatalog) /\ intent.duration_in_days = Some(10) )
        => resp.data.v = << plans[2], plans[3] >>

\* C12: with a non-null data_amount, every row of an Exact result offers at least
\* the requested amount.
C12_ExactAmountAtLeast ==
  ( /\ pc = "done"
    /\ ~intent.data_amount.null
    /\ Succeeded("plans-strict")
    /\ IsExact(resp) )
  => \A i \in 1..Len(resp.data.v) :
        resp.data.v[i].data_amount >= intent.data_amount.v

C12_Witness ==
  /\ pc = "done"
  /\ intent.data_amount = Some(5)
  /\ Succeeded("plans-strict")
  /\ IsExact(resp)
  /\ Len(resp.data.v) >= 1
  /\ \E i \in 1..Len(plans) :
        /\ Contains(plans[i].country_code, countryCode.v.code)
        /\ plans[i].data_amount < 5

\* C13: an input specified as zero is applied as a filter, so a request with
\* duration_in_days = 0 gets no Exact row whose duration differs from 0.
C13_ZeroIsAFilter ==
  ( /\ pc = "done"
    /\ intent.duration_in_days = Some(0)
    /\ Succeeded("plans-strict")
    /\ IsExact(resp) )
  => \A i \in 1..Len(resp.data.v) : resp.data.v[i].duration_in_days = 0

\* C14: every CloseMatch outcome is sent as an envelope with success false, the
\* non-empty close-match rows as data and the one status 400; an envelope with
\* that status never has success true or empty data.
C14_CloseMatchEnvelope ==
  /\ ( /\ pc = "done"
       /\ Succeeded("plans-relaxed")
       /\ Len(closeMatches.v) >= 1 )
     => /\ resp.shape = "envelope"
        /\ resp.status = 400
        /\ resp.success = FALSE
        /\ resp.data = closeMatches
  /\ ( pc = "done" /\ IsCloseMatch(resp) )
     => /\ Succeeded("plans-relaxed")
        /\ resp.data.v # <<>>

C14_Witness ==
  /\ pc = "done"
  /\ Succeeded("plans-relaxed")
  /\ Len(closeMatches.v) = 2
  /\ resp.status = 400
  /\ intent.data_amount = Some(5)

\* C15: every row in the data of an Exact envelope carries a country_name equal to
\* the name of the country record the lookup returned.
C15_ExactRowsCarryResolvedName ==
  ( /\ pc = "done"
    /\ Succeeded("plans-strict")
    /\ IsExact(resp) )
  => \A i \in 1..Len(resp.data.v) :
        /\ "country_name" \in DOMAIN resp.data.v[i]
        /\ resp.data.v[i].country_name = countryCode.v.name

\* C16: a request without messages, or whose last message has no or an empty
\* content, is answered with an error before any generation call or query.
C16_EmptyInputRejected ==
  ( /\ pc # "idle"
    /\ body.json = "object"
    /\ \/ Len(body.messages) = 0
       \/ body.messages[Len(body.messages)].content.null
       \/ body.messages[Len(body.messages)].content.v = "" )
  => /\ pc = "done"
     /\ resp = ErrorJson(MsgNoInput, 500)
     /\ calls = <<>>

C16_Witness ==
  /\ pc = "done"
  /\ body = [json |-> "object", messages |-> << [content |-> Some("")] >>]
  /\ resp.shape = "error"
  /\ calls = <<>>

\* C17: one request issues its external calls in the order generation, country
\* lookup, strict query, relaxed query, each at most once, and none after a call
\* that failed.
C17_CallsInOrderNoRetry ==
  /\ Len(calls) <= Len(CallOrder)
  /\ \A i \in 1..Len(calls) :
        /\ calls[i].op = CallOrder[i]
        /\ (i < Len(calls)) => calls[i].outcome = "ok"

C17_Witness ==
  /\ pc = "done"
  /\ Len(calls) = 3
  /\ Failed("plans-strict")

\* C19: a failed countries query surfaces as a request failure, never as the
\* country-not-found envelope (404, "No exact match found.").
C19_CountryQueryFailureIsFailure ==
  ( pc = "done" /\ Failed("countries") )
  => /\ resp # response(404, FALSE, MsgNoExact, intent.chat_response, Some(<<>>))
     /\ IsCatalogFailure(resp)

\* C20: whenever the duration is non-null, every row of an Exact result has exactly
\* the requested duration, whether or not amount and unit are given.
C20_StrictDurationIsEquality ==
  ( /\ pc = "done"
    /\ ~intent.duration_in_days.null
    /\ Succeeded("plans-strict")
    /\ IsExact(resp) )
  => \A i \in 1..Len(resp.data.v) :
        resp.data.v[i].duration_in_days = intent.duration_in_days.v

\* C18: in every interleaving of two concurrent requests each request answers what
\* it answers when handled alone with the same extractor output, and a step of one
\* request leaves the other request's variables as they are.
C18_ConcurrentRequestsIndependent ==
  /\ []( /\ ( /\ pc = "done"
              /\ Len(calls) >= 1
              /\ calls[1] = Call("generate", "ok") )
            => resp = AloneResponse(plans, intent, calls)
         /\ ( /\ other.pc = "done"
              /\ Len(other.calls) >= 1
              /\ other.calls[1] = Call("generate", "ok") )
            => other.resp = AloneResponse(plans, other.intent, other.calls) )
  /\ [][ /\ (other' # other) => (ownVars' = ownVars)
         /\ (ownVars' # ownVars) => (other' = other) ]_vars

C18_Witness ==
  /\ pc = "strict"
  /\ intent.country_name = Some("Japan")
  /\ intent.chat_response = "chat-a"
  /\ other.pc = "done"
  /\ other.intent.country_name = Some("Japan")
  /\ IsCloseMatch(other.resp)
  /\ other.resp.chat_response = "chat-b"

(***************************************************************************)
(* C21 .. C27                                                              *)
(***************************************************************************)

\* C21: every row of a CloseMatch result has a country_code that contains the
\* resolved code and a duration_in_days of at least the requested duration,
\* whatever amount and unit were requested, and there are at most 3 rows.
C21_CloseMatchRows ==
  ( /\ pc = "done"
    /\ Succeeded("plans-relaxed")
    /\ IsCloseMatch(resp) )
  => /\ Len(resp.data.v) <= 3
     /\ \A i \in 1..Len(resp.data.v) :
          /\ Contains(resp.data.v[i].country_code, countryCode.v.code)
          /\ \/ intent.duration_in_days.null
             \/ resp.data.v[i].duration_in_days >= intent.duration_in_days.v

C21_Witness ==
  /\ pc = "done"
  /\ IsCloseMatch(resp)
  /\ Len(resp.data.v) = 3
  /\ Len(plans) = 5
  /\ intent.duration_in_days = Some(10)
  /\ ~intent.data_amount.null
  /\ ~intent.data_unit.null
  /\ \E i \in 1..Len(plans) : plans[i].duration_in_days < 10

\* C22: the rows of a CloseMatch result are in descending order of
\* duration_in_days and are the rows with the largest durations among all the
\* plans that match the relaxed filter.
C22_CloseMatchLargestFirst ==
  ( /\ pc = "done"
    /\ Succeeded("plans-relaxed")
    /\ IsCloseMatch(resp) )
  => /\ \A i, j \in 1..Len(resp.data.v) :
          (i < j) => resp.data.v[i].duration_in_days >= resp.data.v[j].duration_in_days
     /\ \A k \in 1..Len(plans) :
          ( /\ Contains(plans[k].country_code, countryCode.v.code)
            /\ \/ intent.duration_in_days.null
               \/ plans[k].duration_in_days >= intent.duration_in_days.v
            /\ \A i \in 1..Len(resp.data.v) : resp.data.v[i] # plans[k] )
          => \A i \in 1..Len(resp.data.v) :
                resp.data.v[i].duration_in_days >= plans[k].duration_in_days

\* C23: when duration_in_days is null, the strict query returned zero rows, the
\* close-match query is answered and the catalog holds a plan of the resolved
\* country, the answer is a CloseMatch whose rows are the first plans of that
\* country, whatever their duration.
C23_NullDurationCloseMatch ==
  ( /\ pc = "done"
    /\ Succeeded("countries")
    /\ ~countryCode.null
    /\ intent.duration_in_days.null
    /\ Succeeded("plans-strict")
    /\ esimData = Some(<<>>)
    /\ Succeeded("plans-relaxed")
    /\ \E k \in 1..Len(plans) : Contains(plans[k].country_code, countryCode.v.code) )
  => /\ IsCloseMatch(resp)
     /\ resp.data
          = Some(Limit(SelectSeq(plans,
                                 LAMBDA r : Contains(r.country_code, countryCode.v.code)), 3))

\* C24: in every envelope, success is true only with status 200 and a non-empty
\* list of plan rows as data, and status 404 comes with success false and the
\* empty list as data.
C24_EnvelopeInvariant ==
  (resp.shape = "envelope")
  => /\ resp.success
        => /\ resp.status = 200
           /\ ~resp.data.null
           /\ Len(resp.data.v) >= 1
     /\ (resp.status = 404)
        => /\ ~resp.success
           /\ resp.data = Some(<<>>)

\* C25: for a request with a non-null duration every plan that the strict
\* filter selects is also selected by the relaxed filter, and after a NoMatch
\* answer no plan of the catalog is selected by the strict filter.
C25_RelaxedRelaxesStrict ==
  ( /\ pc \in {"strict", "relaxed", "done"}
    /\ ~countryCode.null
    /\ ~intent.duration_in_days.null )
  => /\ \A k \in 1..Len(plans) :
          ( EsimRows(<<plans[k]>>, Some(countryCode.v.code), intent.data_amount,
                     intent.data_unit, intent.duration_in_days) # <<>> )
          => ( CloseRows(<<plans[k]>>, countryCode.v.code, intent.duration_in_days, nullFilter)
                 = <<plans[k]>> )
     /\ ( /\ pc = "done"
          /\ Succeeded("plans-relaxed")
          /\ IsNoMatch(resp) )
        => \A k \in 1..Len(plans) :
              EsimRows(<<plans[k]>>, Some(countryCode.v.code), intent.data_amount,
                       intent.data_unit, intent.duration_in_days) = <<>>

C25_Witness ==
  /\ pc = "done"
  /\ ~countryCode.null
  /\ intent.duration_in_days = Some(10)
  /\ ~intent.data_amount.null
  /\ \E k \in 1..Len(plans) :
       EsimRows(<<plans[k]>>, Some(countryCode.v.code), intent.data_amount,
                intent.data_unit, intent.duration_in_days) # <<>>
  /\ \E k \in 1..Len(plans) :
       /\ EsimRows(<<plans[k]>>, Some(countryCode.v.code), intent.data_amount,
                   intent.data_unit, intent.duration_in_days) = <<>>
       /\ CloseRows(<<plans[k]>>, countryCode.v.code, intent.duration_in_days, nullFilter) # <<>>

\* The answers a /prompt request can get.
KnownResponse(r) ==
  \/ r = ErrorJson(MsgNoInput, 500)
  \/ \E rq \in Requests : BodyError(rq) # "" /\ r = ErrorJson(BodyError(rq), 500)
  \/ r = ErrorJson(GenError, 500)
  \/ r = ErrorJson("No result", 404)
  \/ r.shape = "envelope" /\ r.status = 404 /\ (~r.success) /\ r.message = MsgNoExact
  \/ IsNoMatch(r)
  \/ IsCloseMatch(r)
  \/ IsExact(r)
  \/ IsCatalogFailure(r)

\* C26: when every awaited call returns or throws, a received request is
\* eventually answered, the answer is one of the known kinds, and the answer is
\* written once, at the step that ends the request.
C26_EveryRequestAnswered ==
  /\ (pc # "idle") ~> (pc = "done" /\ resp # NoResp)
  /\ [](pc = "done" => KnownResponse(resp))
  /\ [][ /\ (resp' # resp) => (resp = NoResp /\ pc # "done" /\ pc' = "done")
         /\ (pc = "done") => (pc' = "done") ]_vars

C26_Witness ==
  /\ pc = "done"
  /\ Len(calls) = 4
  /\ Failed("plans-relaxed")
  /\ IsCatalogFailure(resp)

\* C27: without a data_unit no unit filter is applied, and with a data_unit of
\* MB or GB the rows selected are exactly the rows whose data_unit equals it.
C27_UnitFilterIsEquality ==
  /\ EsimRows(plans, None, None, None, None) = plans
  /\ \A u \in {MB, GB} :
       EsimRows(plans, None, None, Some(u), None)
         = SelectSeq(plans, LAMBDA r : r.data_unit = u)

C27_Witness ==
  /\ pc = "done"
  /\ IsExact(resp)
  /\ ~resp.data.null
  /\ intent.data_unit = Some(GB)
  /\ intent.data_amount.null
  /\ intent.duration_in_days.null
  /\ \E k \in 1..Len(plans) :
       /\ plans[k].data_unit = MB
       /\ Contains(plans[k].country_code, countryCode.v.code)
  /\ \A i \in 1..Len(resp.data.v) : resp.data.v[i].data_unit = GB

====
